---- MODULE Spec2Model ----
(***************************************************************************)
(* A model of the CNN sitemap scraper (src/main.py): the sitemap crawl,    *)
(* the link extractor and filter, the article extractor, the process-pool  *)
(* dispatcher and the main routine that drives them.                       *)
(*                                                                         *)
(* Strings that the code searches with regular expressions (URLs, class    *)
(* attributes) are tuples of one-character strings, so that a search is    *)
(* computed character by character.  Strings the code only copies or       *)
(* compares for equality (meta values, paragraph text) are TLA+ strings.   *)
(***************************************************************************)
EXTENDS Integers, Sequences, FiniteSets, TLC

(***************************************************************************)
(* Python's None.  No value drawn for a meta attribute equals this marker. *)
(***************************************************************************)
None == "None"

\* ------------------------------------------------------------------------
\* Bounds of the model.
\* ------------------------------------------------------------------------
\* Longest URL list handed to the dispatcher / longest discovered link list.
MaxLinks == 2
\* Most anchor elements in a sitemap document drawn for the link extractor.
MaxAnchors == 2
\* Most elements in an article document drawn for the article extractor.
MaxElems == 3

\* ------------------------------------------------------------------------
\* Regular expressions of the code.
\* ------------------------------------------------------------------------
Digit == {"0", "1", "2", "3", "4", "5", "6", "7", "8", "9"}

\* re.search of a pattern without metacharacters: a substring search.
re_search(pattern, s) ==
    \E i \in 0..(Len(s) - Len(pattern)) :
        \A j \in 1..Len(pattern) : s[i + j] = pattern[j]

re_cnn_underscored ==
    <<"c","n","n","-","u","n","d","e","r","s","c","o","r","e","d">>
re_fast_facts ==
    <<"f","a","s","t","-","f","a","c","t","s">>
re_five_things ==
    <<"f","i","v","e","-","t","h","i","n","g","s">>
re_trnd ==
    <<"-","t","r","n","d">>
re_what_matters ==
    <<"w","h","a","t","-","m","a","t","t","e","r","s">>
re_week_in_review ==
    <<"w","e","e","k","-","i","n","-","r","e","v","i","e","w">>

excluded_pages ==
    << re_cnn_underscored, re_fast_facts, re_five_things,
       re_trnd, re_what_matters, re_week_in_review >>

\* re.search(r'/\d{4}/\d{2}/\d{2}/', s): the pattern is twelve characters long.
re_article_search(s) ==
    \E i \in 1..(Len(s) - 11) :
        /\ s[i] = "/"
        /\ \A k \in 1..4 : s[i + k] \in Digit
        /\ s[i + 5] = "/"
        /\ \A k \in 6..7 : s[i + k] \in Digit
        /\ s[i + 8] = "/"
        /\ \A k \in 9..10 : s[i + k] \in Digit
        /\ s[i + 11] = "/"

re_paragraph ==
    <<"b","o","d","y","_","_","p","a","r","a","g","r","a","p","h">>
re_para_alt ==
    <<"p","a","r","a","g","r","a","p","h"," ","i","n","l","i","n","e","-",
      "p","l","a","c","e","h","o","l","d","e","r">>

\* ------------------------------------------------------------------------
\* Link extractor and link filter.
\* A sitemap soup is the sequence of its elements in document order, each
\* [tag, has_href, href]; href is <<>> when the element has no href.
\* ------------------------------------------------------------------------
\* [link.get('href') for link in found]
hrefs_of(found) == [k \in 1..Len(found) |-> found[k].href]

get_soup_links_all_anchors(soup) ==
    LET hit(el) == el.tag = "a" /\ el.has_href
    IN  hrefs_of(SelectSeq(soup, hit))

get_soup_links(soup) ==
    LET hit(el) == el.tag = "a" /\ el.has_href /\ re_article_search(el.href)
    IN  hrefs_of(SelectSeq(soup, hit))

\* The loop that closes crawl_links_month and crawl_links_year.
clean_links_first_pattern_only(all_links) ==
    LET valid(url) == ~ re_search(excluded_pages[1], url)
    IN  SelectSeq(all_links, valid)

clean_links(all_links) ==
    LET valid(url) ==
            \A k \in 1..Len(excluded_pages) : ~ re_search(excluded_pages[k], url)
    IN  SelectSeq(all_links, valid)

\* ------------------------------------------------------------------------
\* Fetcher results and parsed documents.
\* get_html returns the page text, or None after a failed request; a page is
\* [is_none |-> TRUE] or [is_none |-> FALSE, markup |-> document].  A
\* document is written as the sequence of its elements in document order,
\* each [tag, attrs, text], attrs being the function from the names of the
\* attributes the element has to their values.
\* ------------------------------------------------------------------------
NonePage == [is_none |-> TRUE]

Page(markup) == [is_none |-> FALSE, markup |-> markup]

\* A call either returns a value or raises.
Raise(e) == [exception |-> e]

Return(v) == [exception |-> None, value |-> v]

\* BeautifulSoup(None, 'html.parser') raises TypeError (it takes len(markup)).
get_soup(page) ==
    IF page.is_none THEN Raise("TypeError") ELSE Return(page.markup)

\* soup.find(tag, attrs=kwargs): the index of the first element of that tag
\* that has every attribute of kwargs with the given value; 0 when none.
find(soup, tag, kwargs) ==
    LET hit(k) ==
            /\ soup[k].tag = tag
            /\ \A a \in DOMAIN kwargs :
                   /\ a \in DOMAIN soup[k].attrs
                   /\ soup[k].attrs[a] = kwargs[a]
        hits == {k \in 1..Len(soup) : hit(k)}
    IN  IF hits = {} THEN 0 ELSE CHOOSE k \in hits : \A m \in hits : k <= m

\* soup.find_all(tag, class_=regex), in document order.
find_all(soup, tag, class_) ==
    LET hit(el) ==
            /\ el.tag = tag
            /\ "class" \in DOMAIN el.attrs
            /\ re_search(class_, el.attrs["class"])
    IN  SelectSeq(soup, hit)

parse_meta_of_any_meta(soup, attr, kwargs) ==
    LET k == find(soup, "meta", <<>>)
    IN  IF k = 0 THEN None
        ELSE IF attr \notin DOMAIN soup[k].attrs THEN None
        ELSE soup[k].attrs[attr]

\* None[attr] raises TypeError and a missing attribute raises KeyError: the
\* bare except turns both into None.
parse_meta(soup, attr, kwargs) ==
    LET k == find(soup, "meta", kwargs)
    IN  IF k = 0 THEN None
        ELSE IF attr \notin DOMAIN soup[k].attrs THEN None
        ELSE soup[k].attrs[attr]

RECURSIVE join(_)
join(paras) ==
    IF paras = <<>> THEN "" ELSE Head(paras) \o join(Tail(paras))

\* [para.text for para in found]
texts_of(found) == [k \in 1..Len(found) |-> found[k].text]

paragraphs(soup) ==
    texts_of(find_all(soup, "p", re_paragraph))
        \o texts_of(find_all(soup, "div", re_paragraph))
        \o texts_of(find_all(soup, "p", re_para_alt))

headline_of_headline_first(soup) ==
    LET headline == parse_meta(soup, "content", "itemprop" :> "headline")
    IN  IF headline = None
        THEN parse_meta(soup, "content", "itemprop" :> "alternativeHeadline")
        ELSE headline

headline_of(soup) ==
    LET headline == parse_meta(soup, "content", "itemprop" :> "alternativeHeadline")
    IN  IF headline = None
        THEN parse_meta(soup, "content", "itemprop" :> "headline")
        ELSE headline

parse_article(soup) ==
    [ headline |-> headline_of(soup),
      modified |-> parse_meta(soup, "content", "itemprop" :> "dateModified"),
      text     |-> join(paragraphs(soup)) ]

\* ------------------------------------------------------------------------
\* The unit of work of the dispatcher.  argv1 is sys.argv[1].  The three
\* durations are perf_counter differences; their values are not modelled
\* and each is written as the name of its stage.
\* ------------------------------------------------------------------------
timings ==
    ("html_time" :> "html") @@ ("soup_time" :> "soup") @@ ("parse_time" :> "parse")

head_and_date(article) ==
    ("headline" :> article.headline) @@ ("modified" :> article.modified)

thread_worker_keeps_empty_text(page, argv1) ==
    LET soup == get_soup(page)
        article == parse_article(soup.value)
        results == IF argv1 # "keywords"
                   THEN head_and_date(article) @@ ("article_text" :> article.text)
                   ELSE head_and_date(article)
    IN  IF soup.exception # None THEN Raise(soup.exception)
        ELSE IF argv1 # "text" THEN Raise("KeyError")
        ELSE Return(results @@ timings)

\* article['keywords'] raises KeyError: parse_article returns no such key.
thread_worker(page, argv1) ==
    LET soup == get_soup(page)
        article == parse_article(soup.value)
        results == IF argv1 # "keywords" /\ article.text # ""
                   THEN head_and_date(article) @@ ("article_text" :> article.text)
                   ELSE head_and_date(article)
    IN  IF soup.exception # None THEN Raise(soup.exception)
        ELSE IF argv1 # "text" THEN Raise("KeyError")
        ELSE Return(results @@ timings)

\* handle_failures(failures): the content of failed_urls.json after the call,
\* given its content before (NoFile when it was never written).
NoFile == [written |-> FALSE]

File(content) == [written |-> TRUE, content |-> content]

handle_failures(failures, file) ==
    IF Len(failures) > 0 THEN File(failures) ELSE file

\* ------------------------------------------------------------------------
\* Formatting of the sitemap URL.
\* ------------------------------------------------------------------------
DigitChars == <<"0", "1", "2", "3", "4", "5", "6", "7", "8", "9">>

\* '{}'.format(n) for n >= 0: decimal, no padding.
RECURSIVE str(_)
str(n) ==
    IF n < 10 THEN <<DigitChars[n + 1]>>
    ELSE str(n \div 10) \o <<DigitChars[(n % 10) + 1]>>

sitemap_prefix ==
    <<"h","t","t","p","s",":","/","/","u","s",".","c","n","n",".","c","o","m",
      "/","a","r","t","i","c","l","e","/","s","i","t","e","m","a","p","-">>
sitemap_suffix ==
    <<".","h","t","m","l">>

url_str(y, m) ==
    sitemap_prefix \o str(y) \o <<"-">> \o str(m) \o sitemap_suffix

\* ------------------------------------------------------------------------
\* Program constants.
\* ------------------------------------------------------------------------
\* range(1,13): the last month of the year crawl.
LastMonth == 12
\* ProcessPoolExecutor(max_workers=32)
max_workers == 32

\* ------------------------------------------------------------------------
\* The inputs the model draws.
\* ------------------------------------------------------------------------
DatePath ==
    <<"/","2","0","2","1","/","0","4","/","1","4","/">>
\* A one-digit month: not a date path.
ShortDatePath ==
    <<"/","2","0","2","1","/","4","/","1","4","/">>

Prefixes == {DatePath, ShortDatePath, <<"/">>}

Slugs == {<<"a">>, <<"-","t","r","n">>} \cup {excluded_pages[k] : k \in 1..Len(excluded_pages)}

Hrefs == {pre \o slug : pre \in Prefixes, slug \in Slugs}

Anchor(href) == [tag |-> "a", has_href |-> TRUE, href |-> href]

SitemapElems ==
    {Anchor(h) : h \in Hrefs}
        \cup {[tag |-> "a", has_href |-> FALSE, href |-> <<>>],
              [tag |-> "link", has_href |-> TRUE, href |-> DatePath \o <<"a">>]}

SeqsUpTo(S, n) == UNION {[1..k -> S] : k \in 0..n}

\* The pages a month's sitemap fetch may return in the single-month crawl.
MonthPages ==
    {NonePage} \cup {Page(d) : d \in SeqsUpTo(SitemapElems, MaxAnchors)}

UrlKept == DatePath \o <<"a">>
UrlTrnd == DatePath \o re_trnd

\* The pages a month's sitemap fetch may return in the year crawl.
YearPages ==
    {NonePage,
     Page(<<Anchor(UrlKept)>>),
     Page(<<Anchor(UrlTrnd)>>),
     Page(<<Anchor(ShortDatePath \o <<"a">>)>>)}

Years == {2021}

\* sys.argv[3]: 'all', a month number, or something int() rejects.
MonthAll == [kind |-> "all", n |-> 0]

MonthOf(n) == [kind |-> "int", n |-> n]

MonthBad == [kind |-> "bad", n |-> 0]

Months == {MonthAll, MonthOf(4), MonthOf(10), MonthBad}

Element(tag, attrs, text) == [tag |-> tag, attrs |-> attrs, text |-> text]

Meta(itemprop) == Element("meta", "itemprop" :> itemprop, "")

MetaContent(itemprop, content) ==
    Element("meta", ("itemprop" :> itemprop) @@ ("content" :> content), "")

ClassZn ==
    <<"z","n","-","b","o","d","y","_","_","p","a","r","a","g","r","a","p","h">>
ClassBoth ==
    <<"z","n","-","b","o","d","y","_","_","p","a","r","a","g","r","a","p","h",
      " ","i","n","l","i","n","e","-","p","l","a","c","e","h","o","l","d","e","r">>
ClassOther ==
    <<"e","l","_","_","t","i","t","l","e">>

Para(tag, class, text) == Element(tag, "class" :> class, text)

ArticleElems ==
    {Meta("alternativeHeadline"), MetaContent("alternativeHeadline", ""),
     MetaContent("alternativeHeadline", "Alt"),
     Meta("headline"), MetaContent("headline", "Head"),
     Meta("dateModified"), MetaContent("dateModified", "Date"),
     Para("p", ClassZn, "A"), Para("div", ClassZn, "B"),
     Para("p", re_para_alt, "C"), Para("p", ClassBoth, "D"),
     Para("p", ClassOther, "E"), Element("p", <<>>, "F")}

\* The article pages a unit's fetch may return in the dispatcher.
ArticlePages ==
    {NonePage,
     Page(<<MetaContent("alternativeHeadline", "Alt"), MetaContent("headline", "Head"),
            MetaContent("dateModified", "Date"),
            Para("p", ClassZn, "A"), Para("div", ClassZn, "B")>>),
     Page(<<MetaContent("headline", "Head")>>),
     Page(<<Para("p", ClassZn, "")>>)}

ArticleUrls == {UrlKept, DatePath \o <<"b">>}

Argv1 == {"text", "keywords", "both"}

\* ------------------------------------------------------------------------
\* State.
\* ------------------------------------------------------------------------
VARIABLES
    pc,                 \* where the run is
    argv1,              \* sys.argv[1]
    year,               \* main: year
    month,              \* main: month ("all" in a year crawl)
    i,                  \* crawl_links_year: the month of the loop
    page,               \* crawl_links_*: page
    all_links,          \* crawl_links_*: all_links
    links,              \* main: links (the crawl's clean_links; parse_many's url_list)
    failed_urls,        \* the module's failed_urls in the coordinating process
    worker_failed_urls, \* what pool processes appended to their own failed_urls
    failure_file,       \* failed_urls.json
    unit,               \* parse_many: the state of each submitted unit
    future,             \* parse_many: the outcome of each finished unit
    parsed_list,        \* parse_many: parsed_list
    html_times,         \* parse_many: html_times
    soup_times,         \* parse_many: soup_times
    parse_times,        \* parse_many: parse_times
    output_file,        \* CNN_{year}_{month}.json
    soup,               \* parse_article: soup
    article             \* parse_article: article

vars ==
    << pc, argv1, year, month, i, page, all_links, links, failed_urls,
       worker_failed_urls, failure_file, unit, future, parsed_list,
       html_times, soup_times, parse_times, output_file, soup, article >>

crawl_vars == << i, page, all_links, links >>

pool_vars == << unit, future, worker_failed_urls >>

collect_vars == << parsed_list, html_times, soup_times, parse_times >>

article_vars == << soup, article >>

NoPage == [is_none |-> FALSE, markup |-> <<>>]

NoArticle == [headline |-> None, modified |-> None, text |-> ""]

\* What every specification starts from, but for pc and its own inputs.
Blank ==
    /\ i = 1
    /\ page = NoPage
    /\ all_links = <<>>
    /\ failed_urls = <<>>
    /\ worker_failed_urls = <<>>
    /\ failure_file = NoFile
    /\ unit = <<>>
    /\ future = <<>>
    /\ parsed_list = <<>>
    /\ html_times = <<>>
    /\ soup_times = <<>>
    /\ parse_times = <<>>
    /\ output_file = NoFile

\* ------------------------------------------------------------------------
\* get_html(url) in the coordinating process: the page it returns and what
\* it does to failed_urls.
\* ------------------------------------------------------------------------
get_html_failed_urls_replacing(url, p, failed) ==
    IF p.is_none THEN <<url>> ELSE failed

get_html_failed_urls(url, p, failed) ==
    IF p.is_none THEN Append(failed, url) ELSE failed

\* The failed_urls = [] that crawl_links_month, crawl_links_year and
\* parse_many each create and hand to handle_failures: get_html appends to
\* the module's list, never to this one.
local_failed_urls == <<>>

\* ------------------------------------------------------------------------
\* main: reading the inputs.
\* ------------------------------------------------------------------------
\* int(sys.argv[3]) raises ValueError; main's except ends the run.
MainBadInput ==
    /\ pc = "main"
    /\ month.kind = "bad"
    /\ pc' = "aborted"
    /\ UNCHANGED << argv1, year, month, crawl_vars, failed_urls, failure_file,
                    pool_vars, collect_vars, output_file, article_vars >>

MainYear ==
    /\ pc = "main"
    /\ month.kind = "all"
    /\ pc' = "crawl_links_year"
    /\ UNCHANGED << argv1, year, month, crawl_vars, failed_urls, failure_file,
                    pool_vars, collect_vars, output_file, article_vars >>

MainMonth ==
    /\ pc = "main"
    /\ month.kind = "int"
    /\ pc' = "crawl_links_month"
    /\ UNCHANGED << argv1, year, month, crawl_vars, failed_urls, failure_file,
                    pool_vars, collect_vars, output_file, article_vars >>

\* ------------------------------------------------------------------------
\* crawl_links_month(year, month), whole.  With page = None get_soup raises
\* and nothing in crawl_links_month catches it.
\* ------------------------------------------------------------------------
CrawlMonth ==
    /\ pc = "crawl_links_month"
    /\ \E p \in MonthPages :
        LET s == get_soup(p) IN
        /\ page' = p
        /\ failed_urls' = get_html_failed_urls(url_str(year, month.n), p, failed_urls)
        /\ IF s.exception # None
           THEN /\ pc' = "crawl_raised"
                /\ UNCHANGED << all_links, links, failure_file >>
           ELSE /\ all_links' = get_soup_links(s.value)
                /\ failure_file' = handle_failures(local_failed_urls, failure_file)
                /\ links' = clean_links(all_links')
                /\ pc' = "crawl_returned"
    /\ UNCHANGED << argv1, year, month, i, pool_vars, collect_vars, output_file,
                    article_vars >>

\* ------------------------------------------------------------------------
\* crawl_links_year(year): one pass of the loop over the months, then the
\* rest of the function.  The loop's except catches the TypeError of
\* get_soup(None) and goes on to the next month.
\* ------------------------------------------------------------------------
CrawlYearMonthWithoutExcept ==
    /\ pc = "crawl_links_year"
    /\ i <= LastMonth
    /\ \E p \in YearPages :
        LET s == get_soup(p) IN
        /\ page' = p
        /\ failed_urls' = get_html_failed_urls(url_str(year, i), p, failed_urls)
        /\ IF s.exception # None
           THEN /\ pc' = "crawl_raised"
                /\ UNCHANGED << i, all_links >>
           ELSE /\ all_links' = all_links \o get_soup_links(s.value)
                /\ Len(all_links') <= MaxLinks
                /\ i' = i + 1
                /\ pc' = pc
    /\ UNCHANGED << argv1, year, month, links, failure_file, pool_vars,
                    collect_vars, output_file, article_vars >>

CrawlYearMonth ==
    /\ pc = "crawl_links_year"
    /\ i <= LastMonth
    /\ \E p \in YearPages :
        LET s == get_soup(p) IN
        /\ page' = p
        /\ failed_urls' = get_html_failed_urls(url_str(year, i), p, failed_urls)
        /\ all_links' = IF s.exception # None THEN all_links
                        ELSE all_links \o get_soup_links(s.value)
        /\ Len(all_links') <= MaxLinks
    /\ i' = i + 1
    /\ UNCHANGED << pc, argv1, year, month, links, failure_file, pool_vars,
                    collect_vars, output_file, article_vars >>

CrawlYearReturn ==
    /\ pc = "crawl_links_year"
    /\ i > LastMonth
    /\ failure_file' = handle_failures(local_failed_urls, failure_file)
    /\ links' = clean_links(all_links)
    /\ pc' = "crawl_returned"
    /\ UNCHANGED << argv1, year, month, i, page, all_links, failed_urls, pool_vars,
                    collect_vars, output_file, article_vars >>

\* ------------------------------------------------------------------------
\* parse_many(url_list).  Every entry of url_list is submitted to the pool
\* as one future; the pool's processes run the units; the coordinating
\* process takes the finished futures in the order they finish.
\* ------------------------------------------------------------------------
NoFuture == [exception |-> None]

\* An element of the output list is written as the function from the names
\* of the record fields it carries to their values: a bare text carries the
\* text alone.
TextAlone(text) == [text |-> text]

running == {k \in DOMAIN unit : unit[k] = "running"}

\* The dict comprehension of executor.submit calls.  The locals of the crawl
\* are gone by now.
Submit ==
    /\ pc = "crawl_returned"
    /\ unit' = [k \in 1..Len(links) |-> "pending"]
    /\ future' = [k \in 1..Len(links) |-> NoFuture]
    /\ parsed_list' = <<>>
    /\ html_times' = <<>>
    /\ soup_times' = <<>>
    /\ parse_times' = <<>>
    /\ i' = 1
    /\ page' = NoPage
    /\ all_links' = <<>>
    /\ pc' = "as_completed"
    /\ UNCHANGED << argv1, year, month, links, failed_urls, worker_failed_urls,
                    failure_file, output_file, article_vars >>

UnitStartWithoutLimit(k) ==
    /\ pc \in {"as_completed", "shutdown"}
    /\ unit[k] = "pending"
    /\ unit' = [unit EXCEPT ![k] = "running"]
    /\ UNCHANGED << pc, argv1, year, month, crawl_vars, failed_urls,
                    worker_failed_urls, failure_file, future, collect_vars,
                    output_file, article_vars >>

\* A pool process takes a pending unit.
UnitStart(k) ==
    /\ pc \in {"as_completed", "shutdown"}
    /\ unit[k] = "pending"
    /\ Cardinality(running) < max_workers
    /\ unit' = [unit EXCEPT ![k] = "running"]
    /\ UNCHANGED << pc, argv1, year, month, crawl_vars, failed_urls,
                    worker_failed_urls, failure_file, future, collect_vars,
                    output_file, article_vars >>

\* The pool process runs thread_worker(url) to its end.  Its get_html
\* appends a failed URL to the failed_urls of that process.
UnitFinish(k) ==
    /\ pc \in {"as_completed", "shutdown"}
    /\ unit[k] = "running"
    /\ \E p \in ArticlePages :
        /\ worker_failed_urls' = get_html_failed_urls(links[k], p, worker_failed_urls)
        /\ future' = [future EXCEPT ![k] = thread_worker(p, argv1)]
    /\ unit' = [unit EXCEPT ![k] = "done"]
    /\ UNCHANGED << pc, argv1, year, month, crawl_vars, failed_urls, failure_file,
                    collect_vars, output_file, article_vars >>

CollectMoreThanOnce(k) ==
    /\ pc = "as_completed"
    /\ unit[k] = "done"
    /\ IF future[k].exception # None
       THEN /\ pc' = "shutdown"
            /\ unit' = [unit EXCEPT ![k] = "collected"]
            /\ UNCHANGED collect_vars
       ELSE LET results == future[k].value IN
            /\ parsed_list' = IF "article_text" \in DOMAIN results
                              THEN Append(parsed_list, TextAlone(results["article_text"]))
                              ELSE parsed_list
            /\ html_times' = Append(html_times, results["html_time"])
            /\ soup_times' = Append(soup_times, results["soup_time"])
            /\ parse_times' = Append(parse_times, results["parse_time"])
            /\ unit' = IF Len(html_times) < Len(links)
                       THEN unit ELSE [unit EXCEPT ![k] = "collected"]
            /\ pc' = pc
    /\ UNCHANGED << argv1, year, month, crawl_vars, failed_urls, worker_failed_urls,
                    failure_file, future, output_file, article_vars >>

\* One pass of the loop over as_completed(futures).  future.result() raises
\* what the unit raised; nothing in parse_many catches it, and leaving the
\* with block waits for the units still in the pool.
Collect(k) ==
    /\ pc = "as_completed"
    /\ unit[k] = "done"
    /\ unit' = [unit EXCEPT ![k] = "collected"]
    /\ IF future[k].exception # None
       THEN /\ pc' = "shutdown"
            /\ UNCHANGED collect_vars
       ELSE LET results == future[k].value IN
            /\ parsed_list' = IF "article_text" \in DOMAIN results
                              THEN Append(parsed_list, TextAlone(results["article_text"]))
                              ELSE parsed_list
            /\ html_times' = Append(html_times, results["html_time"])
            /\ soup_times' = Append(soup_times, results["soup_time"])
            /\ parse_times' = Append(parse_times, results["parse_time"])
            /\ pc' = pc
    /\ UNCHANGED << argv1, year, month, crawl_vars, failed_urls, worker_failed_urls,
                    failure_file, future, output_file, article_vars >>

ParseManyReturn ==
    /\ pc = "as_completed"
    /\ \A k \in DOMAIN unit : unit[k] = "collected"
    /\ failure_file' = handle_failures(local_failed_urls, failure_file)
    /\ pc' = "parse_many_returned"
    /\ UNCHANGED << argv1, year, month, crawl_vars, failed_urls, pool_vars,
                    collect_vars, output_file, article_vars >>

ParseManyRaiseAfterCollectingAll ==
    /\ pc = "shutdown"
    /\ \A k \in DOMAIN unit : unit[k] = "collected"
    /\ pc' = "parse_many_raised"
    /\ UNCHANGED << argv1, year, month, crawl_vars, failed_urls, failure_file,
                    pool_vars, collect_vars, output_file, article_vars >>

ParseManyRaise ==
    /\ pc = "shutdown"
    /\ \A k \in DOMAIN unit : unit[k] \in {"done", "collected"}
    /\ pc' = "parse_many_raised"
    /\ UNCHANGED << argv1, year, month, crawl_vars, failed_urls, failure_file,
                    pool_vars, collect_vars, output_file, article_vars >>

\* ------------------------------------------------------------------------
\* parse_article(soup), called on a parsed document.
\* ------------------------------------------------------------------------
ParseArticle ==
    /\ pc = "parse_article"
    /\ article' = parse_article(soup)
    /\ pc' = "parse_article_returned"
    /\ UNCHANGED << argv1, year, month, crawl_vars, failed_urls, failure_file,
                    pool_vars, collect_vars, output_file, soup >>

\* ------------------------------------------------------------------------
\* main: after parse_many.
\* ------------------------------------------------------------------------
\* min(html_times) raises ValueError on an empty list, before the export.
MainExport ==
    /\ pc = "parse_many_returned"
    /\ IF Len(html_times) = 0
       THEN /\ pc' = "aborted"
            /\ UNCHANGED output_file
       ELSE /\ output_file' = File(parsed_list)
            /\ pc' = "done"
    /\ UNCHANGED << argv1, year, month, crawl_vars, failed_urls, failure_file,
                    pool_vars, collect_vars, article_vars >>

\* main's except: an exception out of the crawl or out of parse_many.
MainExcept ==
    /\ pc \in {"crawl_raised", "parse_many_raised"}
    /\ pc' = "aborted"
    /\ UNCHANGED << argv1, year, month, crawl_vars, failed_urls, failure_file,
                    pool_vars, collect_vars, output_file, article_vars >>

\* ------------------------------------------------------------------------
\* Specifications.
\* ------------------------------------------------------------------------
\* At most this many months of a year crawl fail in a whole run.
MaxSitemapFailures == 2

Crawl == CrawlMonth \/ CrawlYearMonth \/ CrawlYearReturn

Start == \E k \in DOMAIN unit : UnitStart(k)

Finish == \E k \in DOMAIN unit : UnitFinish(k)

AsCompleted == \E k \in DOMAIN unit : Collect(k)

Dispatch ==
    Submit \/ Start \/ Finish \/ AsCompleted \/ ParseManyReturn \/ ParseManyRaise

\* The whole run of main.
Init ==
    /\ pc = "main"
    /\ argv1 \in Argv1
    /\ year \in Years
    /\ month \in Months
    /\ links = <<>>
    /\ soup = <<>>
    /\ article = NoArticle
    /\ Blank

Next ==
    \/ MainBadInput
    \/ MainYear
    \/ MainMonth
    \/ CrawlMonth
    \/ CrawlYearMonth /\ Len(failed_urls') <= MaxSitemapFailures
    \/ CrawlYearReturn
    \/ Dispatch
    \/ MainExport
    \/ MainExcept

Spec == Init /\ [][Next]_vars

\* The crawler alone: crawl_links_month or crawl_links_year, called.
InitCrawl ==
    /\ argv1 = "text"
    /\ year \in Years
    /\ month \in {MonthAll, MonthOf(4), MonthOf(10)}
    /\ pc = IF month.kind = "all" THEN "crawl_links_year" ELSE "crawl_links_month"
    /\ links = <<>>
    /\ soup = <<>>
    /\ article = NoArticle
    /\ Blank

SpecCrawl == InitCrawl /\ [][Crawl]_vars

\* The dispatcher alone: parse_many called with a list of URLs.
InitDispatch ==
    /\ pc = "crawl_returned"
    /\ argv1 \in Argv1
    /\ year \in Years
    /\ month = MonthAll
    /\ links \in SeqsUpTo(ArticleUrls, MaxLinks)
    /\ soup = <<>>
    /\ article = NoArticle
    /\ Blank

SpecDispatch == InitDispatch /\ [][Dispatch]_vars

\* parse_many under fair scheduling: the coordinating process goes on when it
\* can, the pool gives a waiting unit a free process, and a running unit
\* ends (every request ends by a response, an error or the timeout of 10
\* seconds, and the rest of thread_worker has no loop that depends on input).
SpecDispatchFair ==
    /\ InitDispatch
    /\ [][Dispatch]_vars
    /\ WF_vars(Submit)
    /\ WF_vars(Start)
    /\ WF_vars(Finish)
    /\ WF_vars(AsCompleted)
    /\ WF_vars(ParseManyReturn)
    /\ WF_vars(ParseManyRaise)

\* The pool under load: parse_many called with more URLs than the pool has
\* processes.  The URLs are all alike and every fetch gives the same
\* article, so the units differ by their position only: the pool takes them
\* from its queue in the order of submission, and of the running units the
\* earliest is the one taken to finish next, and of the finished ones the
\* earliest is the one collected next.
PoolLinks == 34

FullArticle ==
    Page(<<MetaContent("alternativeHeadline", "Alt"), MetaContent("headline", "Head"),
           MetaContent("dateModified", "Date"),
           Para("p", ClassZn, "A"), Para("div", ClassZn, "B")>>)

InitPool ==
    /\ pc = "crawl_returned"
    /\ argv1 = "text"
    /\ year \in Years
    /\ month = MonthAll
    /\ links = [k \in 1..PoolLinks |-> UrlKept]
    /\ soup = <<>>
    /\ article = NoArticle
    /\ Blank

StartNext ==
    \E k \in DOMAIN unit :
        /\ UnitStart(k)
        /\ \A j \in 1..(k - 1) : unit[j] # "pending"

FinishNext ==
    \E k \in DOMAIN unit :
        /\ UnitFinish(k)
        /\ \A j \in 1..(k - 1) : unit[j] # "running"
        /\ future'[k] = thread_worker(FullArticle, argv1)

CollectNext ==
    \E k \in DOMAIN unit :
        /\ Collect(k)
        /\ \A j \in 1..(k - 1) : unit[j] = "collected"

NextPool == Submit \/ StartNext \/ FinishNext \/ CollectNext \/ ParseManyReturn

SpecPool == InitPool /\ [][NextPool]_vars

\* The article extractor alone: parse_article called on a document.
InitArticle ==
    /\ pc = "parse_article"
    /\ argv1 = "text"
    /\ year \in Years
    /\ month = MonthAll
    /\ links = <<>>
    /\ soup \in SeqsUpTo(ArticleElems, MaxElems)
    /\ article = NoArticle
    /\ Blank

SpecArticle == InitArticle /\ [][ParseArticle]_vars

\* ========================================================================
\* The claims.
\* ========================================================================
RECURSIVE Count(_, _)
Count(s, x) ==
    IF s = <<>> THEN 0
    ELSE (IF Head(s) = x THEN 1 ELSE 0) + Count(Tail(s), x)

Elems(s) == {s[k] : k \in 1..Len(s)}

\* The two lists hold the same entries, each as many times.
SameEntries(s, t) ==
    \A x \in Elems(s) \cup Elems(t) : Count(s, x) = Count(t, x)

DispatchEnded == pc \in {"parse_many_returned", "parse_many_raised"}

Failed(k) == unit[k] \in {"done", "collected"} /\ future[k].exception # None

\* C1: a unit of work that raises is caught at that unit's boundary:
\* parse_many does not raise (it neither leaves its collecting loop through
\* an exception nor ends raised), and when it has returned every unit that
\* did not raise has been collected, one timing sample each.
C1_UnitFailureIsCaught ==
    /\ pc \notin {"shutdown", "parse_many_raised"}
    /\ pc = "parse_many_returned" =>
           /\ \A k \in DOMAIN unit : ~ Failed(k) => unit[k] = "collected"
           /\ Len(html_times) = Cardinality({k \in DOMAIN unit : ~ Failed(k)})

\* C2: when the dispatcher run has ended, the failure list of the
\* coordinating process holds exactly one entry for each URL whose fetch
\* failed and nothing else, and there are at most as many output records as
\* URLs whose fetch succeeded.
C2_FailureListMatchesFailedFetches ==
    DispatchEnded =>
        /\ SameEntries(failed_urls, worker_failed_urls)
        /\ Len(parsed_list) <= Len(links) - Len(worker_failed_urls)

\* C3: a run that reaches its end with at least one failed fetch has written
\* the failure export, holding the URLs of the failed fetches; a run with no
\* failed fetch has written none.
C3_FailureExportWritten ==
    pc = "done" =>
        IF failed_urls # <<>> \/ worker_failed_urls # <<>>
        THEN /\ failure_file.written
             /\ Elems(failed_urls) \cup Elems(worker_failed_urls)
                    \subseteq Elems(failure_file.content)
        ELSE ~ failure_file.written

\* C4: in every state of the dispatcher run no element of the output list
\* comes from an article whose extracted text is empty.
C4_NoEmptyTextInOutput ==
    \A n \in 1..Len(parsed_list) : parsed_list[n].text # ""

\* C4 witness: the run returned over two URLs with one output element: a
\* unit whose extraction gave the empty text was collected and dropped.
C4_Witness ==
    /\ pc = "parse_many_returned"
    /\ Len(links) = 2
    /\ Len(parsed_list) = 1

\* C5: every element of the list the dispatcher returns is an ArticleRecord:
\* it carries the headline, the modified date and the text, not the text
\* alone.
C5_OutputHoldsArticleRecords ==
    pc = "parse_many_returned" =>
        \A n \in 1..Len(parsed_list) :
            DOMAIN parsed_list[n] = {"headline", "modified", "text"}

\* A /YYYY/MM/DD/ date path somewhere in s.
HasDatePath(s) ==
    \E a \in 1..Len(s) :
        /\ a + 11 <= Len(s)
        /\ LET w == SubSeq(s, a, a + 11)
           IN  \A j \in 1..12 :
                   IF j \in {1, 6, 9, 12} THEN w[j] = "/" ELSE w[j] \in Digit

\* The link targets of the anchors of a document whose target holds a date
\* path, in document order.
RECURSIVE DateAnchorTargets(_)
DateAnchorTargets(doc) ==
    IF doc = <<>> THEN <<>>
    ELSE LET el == Head(doc)
             rest == DateAnchorTargets(Tail(doc))
         IN  IF el.tag = "a" /\ el.has_href /\ HasDatePath(el.href)
             THEN <<el.href>> \o rest
             ELSE rest

Contains(s, part) ==
    \E a \in 1..Len(s) : \E b \in a..Len(s) : SubSeq(s, a, b) = part

ExclusionPatterns ==
    {re_cnn_underscored, re_fast_facts, re_five_things, re_trnd,
     re_what_matters, re_week_in_review}

Excluded(url) == \E pat \in ExclusionPatterns : Contains(url, pat)

\* The URLs of a list that match no exclusion pattern, each as often as it
\* occurs and in the order of the list.
RECURSIVE Kept(_)
Kept(urls) ==
    IF urls = <<>> THEN <<>>
    ELSE IF Excluded(Head(urls)) THEN Kept(Tail(urls))
    ELSE <<Head(urls)>> \o Kept(Tail(urls))

\* C6: crawl_links_year does not raise whichever months fail; every step of
\* its loop takes the next month in ascending order, exactly once, a failed
\* month adding its sitemap URL to failed_urls and no link, a fetched month
\* adding its date-path links; after month 12 it returns the accumulated
\* links, filtered.
C6_CrawlYearSkipsFailedMonths ==
    [][ pc = "crawl_links_year" =>
            IF i <= LastMonth
            THEN /\ pc' = "crawl_links_year"
                 /\ i' = i + 1
                 /\ IF page'.is_none
                    THEN /\ failed_urls' = Append(failed_urls, url_str(year, i))
                         /\ all_links' = all_links
                    ELSE /\ failed_urls' = failed_urls
                         /\ all_links' = all_links \o DateAnchorTargets(page'.markup)
            ELSE /\ pc' = "crawl_returned"
                 /\ links' = Kept(all_links)
                 /\ failed_urls' = failed_urls ]_vars

\* C6 witness: a year crawl returned links although the fetch of month 6,
\* and of no other month, failed.
C6_Witness ==
    /\ pc = "crawl_returned"
    /\ month.kind = "all"
    /\ failed_urls = <<url_str(year, 6)>>
    /\ links # <<>>

\* C7: in single-month mode a failed sitemap fetch is recorded and the run
\* proceeds: crawl_links_month returns and the run is not aborted.
C7_MonthCrawlProceedsAfterFailedFetch ==
    (month.kind = "int" /\ failed_urls # <<>>) =>
        pc \notin {"crawl_raised", "aborted"}

\* C8: the list a crawl returns is the list of discovered URLs without those
\* that match an exclusion pattern: no returned URL matches one, every
\* discovered URL that matches none is returned, as often as discovered and
\* in the same order.
C8_CrawlReturnsFilteredLinks ==
    pc = "crawl_returned" => links = Kept(all_links)

\* C8 witness: a crawl discovered two URLs and returned one of them.
C8_Witness ==
    /\ pc = "crawl_returned"
    /\ Len(all_links) = 2
    /\ Len(links) = 1

\* C9: the link extractor returns the link targets of the anchors whose
\* target holds a date path, verbatim, and nothing else (seen on the page of
\* a single-month crawl).
C9_ExtractorReturnsDateAnchors ==
    (pc = "crawl_returned" /\ month.kind = "int") =>
        all_links = DateAnchorTargets(page.markup)

\* C9 witness: a page with an anchor that is taken after one that is not.
C9_Witness ==
    /\ pc = "crawl_returned"
    /\ month.kind = "int"
    /\ Len(page.markup) = 2
    /\ page.markup[1].tag = "a"
    /\ all_links = <<page.markup[2].href>>

\* The content of the first meta element with the given itemprop; None when
\* there is no such element or it has no content attribute.
MetaValue(doc, itemprop) ==
    LET metas == {k \in 1..Len(doc) :
                     /\ doc[k].tag = "meta"
                     /\ "itemprop" \in DOMAIN doc[k].attrs
                     /\ doc[k].attrs["itemprop"] = itemprop}
        first == CHOOSE k \in metas : \A m \in metas : k <= m
    IN  IF metas = {} THEN None
        ELSE IF "content" \in DOMAIN doc[first].attrs
        THEN doc[first].attrs["content"]
        ELSE None

\* C10: the extracted headline is the alternativeHeadline meta value when
\* that is present, otherwise the headline meta value when that is present,
\* otherwise absent (the value of an itemprop being the content of the
\* first meta element that has the itemprop).
C10_HeadlineResolution ==
    pc = "parse_article_returned" =>
        article.headline =
            IF MetaValue(soup, "alternativeHeadline") # None
            THEN MetaValue(soup, "alternativeHeadline")
            ELSE IF MetaValue(soup, "headline") # None
            THEN MetaValue(soup, "headline")
            ELSE None

\* C10 witness: only the headline meta value is present and it is the
\* extracted headline.
C10_Witness ==
    /\ pc = "parse_article_returned"
    /\ MetaValue(soup, "alternativeHeadline") = None
    /\ MetaValue(soup, "headline") = "Head"
    /\ article.headline = "Head"

\* An element that one of the three paragraph shapes matches.
IsParagraph(el) ==
    /\ "class" \in DOMAIN el.attrs
    /\ \/ el.tag \in {"p", "div"} /\ Contains(el.attrs["class"], re_paragraph)
       \/ el.tag = "p" /\ Contains(el.attrs["class"], re_para_alt)

\* The texts of the matched elements of a document, each element once, in
\* document order, joined with no separator.
RECURSIVE DocumentOrderText(_)
DocumentOrderText(doc) ==
    IF doc = <<>> THEN ""
    ELSE (IF IsParagraph(Head(doc)) THEN Head(doc).text ELSE "")
             \o DocumentOrderText(Tail(doc))

\* C11: the extracted text is the concatenation, with no separator, of the
\* text of every element matched by any of the three paragraph shapes, each
\* element once, in document order.
C11_TextInDocumentOrder ==
    pc = "parse_article_returned" => article.text = DocumentOrderText(soup)

\* The meta elements of a document that have one of the given itemprops.
MetasOf(doc, itemprops) ==
    LET keep(el) ==
            /\ el.tag = "meta"
            /\ "itemprop" \in DOMAIN el.attrs
            /\ el.attrs["itemprop"] \in itemprops
    IN  SelectSeq(doc, keep)

\* The elements of a document that are not meta elements.
NonMetas(doc) ==
    LET keep(el) == el.tag # "meta"
    IN  SelectSeq(doc, keep)

\* C12: extraction returns a record for every document, and its fields
\* degrade independently: modified is the dateModified value or absent
\* whatever the other elements, the headline is what the headline metas
\* alone give (absent when neither has a value), and the text is what the
\* other elements alone give.
C12_FieldsDegradeIndependently ==
    pc = "parse_article_returned" =>
        /\ article.modified = MetaValue(soup, "dateModified")
        /\ article.headline =
               parse_article(MetasOf(soup, {"alternativeHeadline", "headline"})).headline
        /\ (MetaValue(soup, "alternativeHeadline") = None
                /\ MetaValue(soup, "headline") = None) => article.headline = None
        /\ article.text = parse_article(NonMetas(soup)).text

\* C12 witness: the dateModified meta lacks its content, and the headline
\* and the text are extracted all the same.
C12_Witness ==
    /\ pc = "parse_article_returned"
    /\ \E k \in 1..Len(soup) :
           /\ soup[k].tag = "meta"
           /\ soup[k].attrs["itemprop"] = "dateModified"
           /\ "content" \notin DOMAIN soup[k].attrs
    /\ article.modified = None
    /\ article.headline = "Head"
    /\ article.text = "A"

Finished(k) == unit[k] \in {"done", "collected"}

\* C13: whatever the output-field mode, a unit of work on a fetched and
\* parsed article completes with a result; the result holds keyword data
\* exactly when the mode is not text, and body text only when the mode is
\* not keywords.
C13_ModeSelectsFields ==
    \A k \in DOMAIN unit :
        (Finished(k) /\ future[k].exception # "TypeError") =>
            /\ future[k].exception = None
            /\ ("keywords" \in DOMAIN future[k].value) <=> (argv1 # "text")
            /\ ("article_text" \in DOMAIN future[k].value) => (argv1 # "keywords")

\* C14: at most 32 units of work are executing at any time (so a unit starts
\* only when fewer than 32 are in flight).
C14_AtMost32Running ==
    Cardinality({k \in DOMAIN unit : unit[k] = "running"}) <= 32

\* C14 witness: 32 units are executing and a submitted unit waits.
C14_Witness ==
    /\ Cardinality({k \in DOMAIN unit : unit[k] = "running"}) = 32
    /\ \E k \in DOMAIN unit : unit[k] = "pending"

\* C15: no worker appends to the output list, to a failure list or to the
\* timing lists while it executes its unit of work.
C15_WorkersAppendNothing ==
    [][ (\E k \in DOMAIN unit : unit[k] = "running" /\ unit'[k] = "done") =>
            /\ failed_urls' = failed_urls
            /\ worker_failed_urls' = worker_failed_urls
            /\ UNCHANGED collect_vars ]_vars

Rank(state) ==
    CASE state = "pending" -> 1
      [] state = "running" -> 2
      [] state = "done" -> 3
      [] state = "collected" -> 4

Submitted ==
    pc \in {"as_completed", "shutdown", "parse_many_returned", "parse_many_raised"}

\* C16: every entry of the URL list is one unit of work; a unit only moves
\* forward (pending, running, done, collected) and never back, failed or
\* not; each collected result adds one sample to each of the three timing
\* lists, so a run that returned has one sample of three durations per
\* entry.
C16_EachEntryOneUnit ==
    /\ [](Submitted =>
            /\ DOMAIN unit = 1..Len(links)
            /\ Len(html_times) =
                   Cardinality({k \in DOMAIN unit :
                                   unit[k] = "collected" /\ future[k].exception = None})
            /\ Len(soup_times) = Len(html_times)
            /\ Len(parse_times) = Len(html_times)
            /\ pc = "parse_many_returned" => Len(html_times) = Len(links))
    /\ [][Submitted =>
            \A k \in DOMAIN unit :
                /\ k \in DOMAIN unit'
                /\ Rank(unit'[k]) \in {Rank(unit[k]), Rank(unit[k]) + 1}]_vars

\* C16 witness: a run over two entries returned with two samples.
C16_Witness ==
    /\ pc = "parse_many_returned"
    /\ Len(links) = 2
    /\ Len(html_times) = 2
    /\ Len(soup_times) = 2
    /\ Len(parse_times) = 2

\* What one fetch does to a failure list: a failed fetch appends its URL
\* once, at the end; a fetch that gives a body leaves the list as it was.
FetchEffect(url, no_body, before, after) ==
    IF no_body THEN after = Append(before, url) ELSE after = before

SitemapFetch ==
    \/ pc = "crawl_links_month"
    \/ pc = "crawl_links_year" /\ i' # i

SitemapUrl ==
    IF pc = "crawl_links_month" THEN url_str(year, month.n) ELSE url_str(year, i)

WorkerFetch(k) == unit[k] = "running" /\ k \in DOMAIN unit' /\ unit'[k] = "done"

\* C18: the failure list of a process is append-only.  A fetch that fails
\* appends its URL once and gives no body, a fetch that succeeds leaves the
\* list unchanged, and no other step of the crawler, of the dispatcher or of
\* main (their calls of handle_failures included) changes the list.
C18_FailureListAppendOnly ==
    [][ /\ IF SitemapFetch
           THEN FetchEffect(SitemapUrl, page'.is_none, failed_urls, failed_urls')
           ELSE failed_urls' = failed_urls
        /\ IF \E k \in DOMAIN unit : WorkerFetch(k)
           THEN \A k \in DOMAIN unit :
                    WorkerFetch(k) =>
                        FetchEffect(links[k], future'[k].exception = "TypeError",
                                    worker_failed_urls, worker_failed_urls')
           ELSE worker_failed_urls' = worker_failed_urls ]_vars

\* C18 witness: two sitemap fetches failed and others gave links, the crawl
\* returned through handle_failures, and a worker's fetch failed as well.
C18_Witness ==
    /\ Len(failed_urls) = 2
    /\ failed_urls[1] # failed_urls[2]
    /\ links # <<>>
    /\ worker_failed_urls # <<>>
    /\ \E k \in DOMAIN unit : Finished(k) /\ future[k].exception = None

\* C19: under fair scheduling, with every fetch ending, parse_many over a
\* finite list eventually ends, by return or by raise, with every submitted
\* unit completed and none left pending or running.
C19_DispatchEventuallyEnds ==
    <>(/\ pc \in {"parse_many_returned", "parse_many_raised"}
       /\ DOMAIN unit = 1..Len(links)
       /\ \A k \in DOMAIN unit : Finished(k))

\* C19 witness: parse_many over two entries ended although the first
\* collected result raised: the other unit completed and was waited for.
C19_Witness ==
    /\ pc = "parse_many_raised"
    /\ Len(links) = 2
    /\ \E k \in DOMAIN unit : unit[k] = "done"
    /\ \A k \in DOMAIN unit : Finished(k)

\* C20: the main output is written only at the end of the run, after the
\* result of every submitted unit was collected; a run aborted by a bad
\* input writes none; and a run with valid inputs that has ended has written
\* it, also when the crawl found no article URL (stated here for the runs
\* in which no sitemap fetch failed and no unit raised).
C20_ValidRunWritesOutput ==
    /\ output_file.written =>
           /\ pc = "done"
           /\ DOMAIN unit = 1..Len(links)
           /\ \A k \in DOMAIN unit : unit[k] = "collected"
    /\ (pc = "aborted" /\ month.kind = "bad") => ~ output_file.written
    /\ ( /\ pc \in {"done", "aborted"}
         /\ month.kind # "bad"
         /\ failed_urls = <<>>
         /\ \A k \in DOMAIN unit : future[k].exception = None ) =>
           output_file.written

====
